---------------------------- MODULE Spec2Model ----------------------------
(***************************************************************************)
(* A model of the recursive-descent Nix parser and serializer of           *)
(* src/src/lib.rs.                                                         *)
(*                                                                         *)
(* Characters are one-character strings, a Rust String or Vec<char> is a   *)
(* sequence of them.  The cursor (NixParser's pos, line, col) is a record  *)
(* p; pos is 0-based as in the source, so the character under the cursor   *)
(* is inp[p.pos + 1].  A Result<T, ParseError> is a record                 *)
(* [ok, v, p]: v is the value (ok) or the ParseError (~ok) and p is the    *)
(* cursor the call leaves behind.                                          *)
(***************************************************************************)
EXTENDS Integers, Sequences, FiniteSets, TLC

VARIABLES
    input,      \* the source text handed to parse_nix_string
    shape,      \* how the driver composed input (its parts), for the oracles
    pc,         \* "start" -> "parsed" -> "printed" -> "reparsed"
    result,     \* Result of parse_nix_string(input)
    text,       \* value.to_string() of the parsed value
    result2     \* Result of parse_nix_string(text)

vars == <<input, shape, pc, result, text, result2>>

-----------------------------------------------------------------------------
(* Characters *)

None == "EOF"                      \* Option::None of current()
NL == "\n"
Lower == {"a","b","c","d","e","f","g","h","i","j","k","l","m",
          "n","o","p","q","r","s","t","u","v","w","x","y","z"}
Upper == {"A","B","C","D","E","F","G","H","I","J","K","L","M",
          "N","O","P","Q","R","S","T","U","V","W","X","Y","Z"}
DigitChars == <<"0","1","2","3","4","5","6","7","8","9">>
Digits == {DigitChars[i] : i \in 1..10}

\* char::is_whitespace, char::is_numeric, char::is_alphanumeric on the
\* characters of the model's alphabets (ASCII).
is_whitespace(c) == c \in {" ", NL, "\t", "\r"}
is_numeric(c) == c \in Digits
is_alphanumeric(c) == c \in Lower \cup Upper \cup Digits

DigitVal(c) == (CHOOSE i \in 1..10 : DigitChars[i] = c) - 1

Min(a, b) == IF a < b THEN a ELSE b

-----------------------------------------------------------------------------
(* Value model *)

NixNull == [tag |-> "Null"]
NixBool(b) == [tag |-> "Bool", b |-> b]
NixInt(i) == [tag |-> "Int", i |-> i]
\* An f64 that a decimal numeral denotes: (-1)^neg * mant / 10^scale, with
\* mant not divisible by 10 unless scale = 0.  The sign is kept for a zero
\* too, as f64 keeps it and Display prints it.
NixFloat(neg, mant, scale) == [tag |-> "Float", neg |-> neg, mant |-> mant, scale |-> scale]
NixString(s) == [tag |-> "String", s |-> s]
NixPath(s) == [tag |-> "Path", s |-> s]
NixList(items) == [tag |-> "List", items |-> items]
NixAttrSet(attrs) == [tag |-> "AttrSet", attrs |-> attrs]
NixFunction(params, body) == [tag |-> "Function", params |-> params, body |-> body]
NixLet(bindings, body) == [tag |-> "Let", bindings |-> bindings, body |-> body]
NixImport(s) == [tag |-> "Import", s |-> s]
NixVariable(s) == [tag |-> "Variable", s |-> s]

\* HashMap<String, NixValue>: a function from key texts to values.
HashMapNew == <<>>
HashMapInsert(m, k, v) == [x \in (DOMAIN m) \cup {k} |-> IF x = k THEN v ELSE m[x]]

-----------------------------------------------------------------------------
(* Cursor *)

\* rb is a history of the rollbacks of parse_value: for each one the snapshot
\* taken at the '{' and the cursor parse_attrset was started with.  eof counts
\* the calls of advance made with no character under the cursor, and bad
\* records that an error was built from an out-of-range slice (a panic).
NewCursor == [pos |-> 0, line |-> 1, col |-> 1, rb |-> <<>>, eof |-> 0, bad |-> FALSE]

Triple(p) == [pos |-> p.pos, line |-> p.line, col |-> p.col]

InputGet(inp, i) == IF i < Len(inp) THEN inp[i + 1] ELSE None

current(inp, p) == InputGet(inp, p.pos)

advance(inp, p) ==
    LET c == current(inp, p) IN
    IF c # None
    THEN IF c = NL
         THEN [p EXCEPT !.pos = p.pos + 1, !.line = p.line + 1, !.col = 1]
         ELSE [p EXCEPT !.pos = p.pos + 1, !.col = p.col + 1]
    ELSE [p EXCEPT !.pos = p.pos + 1, !.eof = p.eof + 1]

RECURSIVE advance_n(_, _, _)
advance_n(inp, p, n) == IF n = 0 THEN p ELSE advance_n(inp, advance(inp, p), n - 1)

RECURSIVE peek_from(_, _, _, _)
peek_from(inp, p, s, i) ==
    IF i > Len(s) THEN TRUE
    ELSE IF InputGet(inp, p.pos + (i - 1)) # s[i] THEN FALSE
    ELSE peek_from(inp, p, s, i + 1)

peek_string(inp, p, s) == peek_from(inp, p, s, 1)

-----------------------------------------------------------------------------
(* Error reporter *)

ContextRange == 30

\* The outcome of an out-of-range slice (a panic), which is not a String.
SlicePanic == <<"PANIC">>

RECURSIVE replace_newlines(_)
replace_newlines(s) ==
    IF s = <<>> THEN <<>>
    ELSE (IF Head(s) = NL THEN <<"\\", "n">> ELSE <<Head(s)>>) \o replace_newlines(Tail(s))

Spaces(n) == [i \in 1..n |-> " "]

get_context(inp, p, range) ==
    LET start == IF p.pos > range THEN p.pos - range ELSE 0
        end == Min(p.pos + range, Len(inp))
    IN  IF start > end THEN SlicePanic
        ELSE replace_newlines(SubSeq(inp, start + 1, end)) \o <<NL>>
                 \o Spaces(Min(p.pos - start, end - start)) \o <<"^">>

\* A ParseError; args are the values formatted into the message.
error(inp, p, msg, args) ==
    [message |-> msg, args |-> args, line |-> p.line, col |-> p.col,
     context |-> get_context(inp, p, ContextRange)]

Ok(v, p) == [ok |-> TRUE, v |-> v, p |-> p]
Err(inp, p, msg, args) ==
    [ok |-> FALSE, v |-> error(inp, p, msg, args),
     p |-> [p EXCEPT !.bad = p.bad \/ get_context(inp, p, ContextRange) = SlicePanic]]

-----------------------------------------------------------------------------
(* Lexical scanning *)

RECURSIVE skip_line_comment(_, _)
skip_line_comment(inp, p) ==
    LET ch == current(inp, p) IN
    IF ch = None THEN p
    ELSE IF ch = NL THEN advance(inp, p)
    ELSE skip_line_comment(inp, advance(inp, p))

\* The block comment loop with the closing */ consumed without a test
RECURSIVE skip_block_comment_unchecked(_, _)
skip_block_comment_unchecked(inp, p) ==
    IF ~peek_string(inp, p, <<"*", "/">>) /\ current(inp, p) # None
    THEN skip_block_comment_unchecked(inp, advance(inp, p))
    ELSE advance_n(inp, p, 2)

RECURSIVE skip_block_comment(_, _)
skip_block_comment(inp, p) ==
    IF ~peek_string(inp, p, <<"*", "/">>) /\ current(inp, p) # None
    THEN skip_block_comment(inp, advance(inp, p))
    ELSE IF peek_string(inp, p, <<"*", "/">>) THEN advance_n(inp, p, 2) ELSE p

\* skip_whitespace without the line comment
RECURSIVE skip_whitespace_no_line_comment(_, _)
skip_whitespace_no_line_comment(inp, p) ==
    LET c == current(inp, p) IN
    IF c = None THEN p
    ELSE IF is_whitespace(c) THEN skip_whitespace_no_line_comment(inp, advance(inp, p))
    ELSE IF peek_string(inp, p, <<"/", "*">>)
         THEN skip_whitespace_no_line_comment(inp,
                  skip_block_comment(inp, advance_n(inp, p, 2)))
    ELSE p

RECURSIVE skip_whitespace(_, _)
skip_whitespace(inp, p) ==
    LET c == current(inp, p) IN
    IF c = None THEN p
    ELSE IF is_whitespace(c) THEN skip_whitespace(inp, advance(inp, p))
    ELSE IF c = "#" THEN skip_whitespace(inp, skip_line_comment(inp, p))
    ELSE IF peek_string(inp, p, <<"/", "*">>)
         THEN skip_whitespace(inp, skip_block_comment(inp, advance_n(inp, p, 2)))
    ELSE p

IsIdentChar(c) == is_alphanumeric(c) \/ c = "_" \/ c = "-" \/ c = "'"

RECURSIVE identifier_loop(_, _, _)
identifier_loop(inp, p, id) ==
    LET c == current(inp, p) IN
    IF c # None /\ IsIdentChar(c)
    THEN identifier_loop(inp, advance(inp, p), Append(id, c))
    ELSE [s |-> id, p |-> p]

\* parse_identifier without the test for an empty identifier
identifier_result_unchecked(inp, r) == Ok(r.s, r.p)

\* r is what the scanning loop leaves: the text scanned and the cursor.
identifier_result(inp, r) ==
    IF r.s = <<>> THEN Err(inp, r.p, "Expected identifier", <<>>) ELSE Ok(r.s, r.p)

parse_identifier(inp, p) == identifier_result(inp, identifier_loop(inp, p, <<>>))

IsPathChar(c) ==
    c \in Lower \cup Upper \cup Digits \cup {"_", "-", "/", "."}

RECURSIVE path_loop(_, _, _)
path_loop(inp, p, path) ==
    LET c == current(inp, p) IN
    IF c # None /\ IsPathChar(c)
    THEN path_loop(inp, advance(inp, p), Append(path, c))
    ELSE [s |-> path, p |-> p]

path_result(inp, r) ==
    IF r.s = <<>> THEN Err(inp, r.p, "Expected path", <<>>) ELSE Ok(r.s, r.p)

parse_path(inp, p) == path_result(inp, path_loop(inp, p, <<>>))

RECURSIVE multiline_loop(_, _, _)
multiline_loop(inp, p, s) ==
    LET c == current(inp, p) IN
    IF c = None THEN Err(inp, p, "Unterminated multi-line string", <<>>)
    ELSE IF c = "'" /\ InputGet(inp, p.pos + 1) = "'" THEN Ok(s, advance_n(inp, p, 2))
    ELSE multiline_loop(inp, advance(inp, p), Append(s, c))

Unescape(c) ==
    CASE c = "n" -> NL
      [] c = "t" -> "\t"
      [] c = "r" -> "\r"
      [] OTHER -> c

\* The loop of parse_string with the end of input taken as the closing quote
RECURSIVE string_loop_lenient(_, _, _, _, _)
string_loop_lenient(inp, p, quote, s, escaped) ==
    LET c == current(inp, p) IN
    IF c = None THEN Ok(s, p)
    ELSE IF escaped
         THEN string_loop_lenient(inp, advance(inp, p), quote, Append(s, Unescape(c)), FALSE)
    ELSE IF c = "\\" THEN string_loop_lenient(inp, advance(inp, p), quote, s, TRUE)
    ELSE IF c = quote THEN Ok(s, advance(inp, p))
    ELSE string_loop_lenient(inp, advance(inp, p), quote, Append(s, c), FALSE)

RECURSIVE string_loop(_, _, _, _, _)
string_loop(inp, p, quote, s, escaped) ==
    LET c == current(inp, p) IN
    IF c = None THEN Err(inp, p, "Unterminated string", <<>>)
    ELSE IF escaped THEN string_loop(inp, advance(inp, p), quote, Append(s, Unescape(c)), FALSE)
    ELSE IF c = "\\" THEN string_loop(inp, advance(inp, p), quote, s, TRUE)
    ELSE IF c = quote THEN Ok(s, advance(inp, p))
    ELSE string_loop(inp, advance(inp, p), quote, Append(s, c), FALSE)

parse_string(inp, p) ==
    LET quote == current(inp, p) IN
    IF quote = None THEN Err(inp, p, "Expected quote", <<>>)
    ELSE IF quote = "'" /\ InputGet(inp, p.pos + 1) = "'"
         THEN multiline_loop(inp, advance_n(inp, p, 2), <<>>)
    ELSE string_loop(inp, advance(inp, p), quote, <<>>, FALSE)

RECURSIVE parse_attribute_path_loop(_, _, _)

\* After a part: p1 is the cursor after the whitespace that follows it.
attribute_path_next(inp, p1, path1) ==
    IF current(inp, p1) = "."
    THEN IF InputGet(inp, p1.pos + 1) = "/"
         THEN Ok(path1, p1)
         ELSE parse_attribute_path_loop(inp, skip_whitespace(inp, advance(inp, p1)),
                                        Append(path1, "."))
    ELSE Ok(path1, p1)

\* r is the Result of the part: of parse_string (quoted) or parse_identifier.
attribute_path_part(inp, quoted, r, path) ==
    IF ~r.ok THEN r
    ELSE attribute_path_next(inp, skip_whitespace(inp, r.p),
             path \o (IF quoted THEN <<"\"">> \o r.v \o <<"\"">> ELSE r.v))

parse_attribute_path_loop(inp, p, path) ==
    IF current(inp, p) = "." /\ InputGet(inp, p.pos + 1) = "/"
    THEN Err(inp, p, "Path found where identifier expected", <<>>)
    ELSE IF current(inp, p) = "\""
         THEN attribute_path_part(inp, TRUE, parse_string(inp, p), path)
         ELSE attribute_path_part(inp, FALSE, parse_identifier(inp, p), path)

parse_attribute_path(inp, p) == parse_attribute_path_loop(inp, p, <<>>)

-----------------------------------------------------------------------------
(* Numerals *)

RECURSIVE number_loop(_, _, _, _)
number_loop(inp, p, num, is_float) ==
    LET c == current(inp, p) IN
    IF c # None /\ (is_numeric(c) \/ c = "." \/ c = "-")
    THEN number_loop(inp, advance(inp, p), Append(num, c), is_float \/ c = ".")
    ELSE [s |-> num, is_float |-> is_float, p |-> p]

RECURSIVE DecimalValue(_)
DecimalValue(ds) ==
    IF ds = <<>> THEN 0
    ELSE 10 * DecimalValue(SubSeq(ds, 1, Len(ds) - 1)) + DigitVal(ds[Len(ds)])

AllDigits(s) == \A i \in 1..Len(s) : s[i] \in Digits

Unsigned(num) == IF num # <<>> /\ num[1] = "-" THEN Tail(num) ELSE num

\* str::parse::<i64>: an optional sign and one or more digits.  The numerals
\* of the model are too short to leave the range of i64.
parse_i64(num) ==
    IF Unsigned(num) # <<>> /\ AllDigits(Unsigned(num))
    THEN [ok |-> TRUE,
          v |-> IF Unsigned(num) = num THEN DecimalValue(num)
                ELSE 0 - DecimalValue(Unsigned(num))]
    ELSE [ok |-> FALSE]

RECURSIVE StripTrailingZeros(_)
StripTrailingZeros(ds) ==
    IF ds # <<>> /\ ds[Len(ds)] = "0"
    THEN StripTrailingZeros(SubSeq(ds, 1, Len(ds) - 1)) ELSE ds

DotPositions(s) == {i \in 1..Len(s) : s[i] = "."}

\* The f64 of integer digits ip and fraction digits fp
decimal_f64(neg, ip, fp) ==
    IF AllDigits(ip) /\ AllDigits(fp) /\ Len(ip) + Len(fp) > 0
    THEN [ok |-> TRUE, neg |-> neg,
          mant |-> DecimalValue(ip \o StripTrailingZeros(fp)),
          scale |-> Len(StripTrailingZeros(fp))]
    ELSE [ok |-> FALSE]

split_f64(neg, ds, dots) ==
    IF Cardinality(dots) = 1
    THEN decimal_f64(neg, SubSeq(ds, 1, (CHOOSE i \in dots : TRUE) - 1),
                     SubSeq(ds, (CHOOSE i \in dots : TRUE) + 1, Len(ds)))
    ELSE [ok |-> FALSE]

\* str::parse::<f64> on a run of digits, '.' and '-': an optional sign, then
\* digits with one '.' among them and at least one digit.  The value is kept
\* as the decimal it denotes (sign, mantissa, number of fraction digits).
parse_f64(num) == split_f64(Unsigned(num) # num, Unsigned(num), DotPositions(Unsigned(num)))

float_result(inp, f, p) ==
    IF f.ok THEN Ok(NixFloat(f.neg, f.mant, f.scale), p)
    ELSE Err(inp, p, "Invalid float", <<>>)

int_result(inp, i, p) ==
    IF i.ok THEN Ok(NixInt(i.v), p) ELSE Err(inp, p, "Invalid integer", <<>>)

\* parse_number with the '.' test of the scan lost: every run is read as an i64.
number_result_no_float(inp, r) == int_result(inp, parse_i64(r.s), r.p)

\* r is what the scanning loop leaves: the run, is_float and the cursor.
number_result(inp, r) ==
    IF r.is_float THEN float_result(inp, parse_f64(r.s), r.p)
    ELSE int_result(inp, parse_i64(r.s), r.p)

parse_number(inp, p) == number_result(inp, number_loop(inp, p, <<>>, FALSE))

-----------------------------------------------------------------------------
(* Parser.  A step that uses the Result of a call takes it as a parameter. *)

RECURSIVE parse_value(_, _)

RECURSIVE parse_list_loop(_, _, _)

list_item(inp, r, items) ==
    IF ~r.ok THEN r
    ELSE parse_list_loop(inp, skip_whitespace(inp, r.p), Append(items, r.v))

parse_list_loop(inp, p, items) ==
    IF current(inp, p) # "]" /\ current(inp, p) # None
    THEN list_item(inp, parse_value(inp, p), items)
    ELSE Ok(NixList(items), IF current(inp, p) = "]" THEN advance(inp, p) ELSE p)

parse_list(inp, p) ==
    parse_list_loop(inp, skip_whitespace(inp, advance(inp, p)), <<>>)

\* if self.current() == Some(c) { self.advance(); }
skip_char(inp, p, c) == IF current(inp, p) = c THEN advance(inp, p) ELSE p

\* if self.current() == Some(c) { self.advance(); self.skip_whitespace(); }
skip_separator(inp, p, c) ==
    IF current(inp, p) = c THEN skip_whitespace(inp, advance(inp, p)) ELSE p

RECURSIVE inherit_loop(_, _, _)

inherit_item(inp, r, inherited) ==
    IF ~r.ok THEN r
    ELSE inherit_loop(inp, skip_whitespace(inp, r.p), Append(inherited, r.v))

inherit_loop(inp, p, inherited) ==
    IF current(inp, p) # ";" /\ current(inp, p) # None
    THEN inherit_item(inp, parse_identifier(inp, p), inherited)
    ELSE Ok(inherited, p)

RECURSIVE parse_attrset_loop(_, _, _)

attrset_after_inherit(inp, r, attrs) ==
    IF ~r.ok THEN r
    ELSE parse_attrset_loop(inp, skip_whitespace(inp, skip_char(inp, r.p, ";")), attrs)

attrset_after_value(inp, key, value, attrs) ==
    IF ~value.ok THEN value
    ELSE parse_attrset_loop(inp, skip_separator(inp, skip_whitespace(inp, value.p), ";"),
                            HashMapInsert(attrs, key, value.v))

attrset_expect_eq(inp, key, p1, attrs) ==
    IF current(inp, p1) # "="
    THEN Err(inp, p1, "Expected '=' after key", <<key, current(inp, p1)>>)
    ELSE attrset_after_value(inp, key,
             parse_value(inp, skip_whitespace(inp, advance(inp, p1))), attrs)

attrset_after_key(inp, k, attrs) ==
    IF ~k.ok THEN k
    ELSE attrset_expect_eq(inp, k.v, skip_whitespace(inp, k.p), attrs)

parse_attrset_loop(inp, p, attrs) ==
    IF current(inp, p) # "}" /\ current(inp, p) # None
    THEN IF peek_string(inp, p, <<"i","n","h","e","r","i","t">>)
         THEN attrset_after_inherit(inp,
                  inherit_loop(inp, skip_whitespace(inp, advance_n(inp, p, 7)), <<>>), attrs)
         ELSE IF current(inp, p) = "\""
              THEN attrset_after_key(inp, parse_string(inp, p), attrs)
              ELSE attrset_after_key(inp, parse_attribute_path(inp, p), attrs)
    ELSE Ok(NixAttrSet(attrs), skip_char(inp, p, "}"))

parse_attrset(inp, p) ==
    parse_attrset_loop(inp, skip_whitespace(inp, advance(inp, p)), HashMapNew)

RECURSIVE parse_function_params_loop(_, _, _)

params_finish(inp, p, params) == Ok(params, skip_char(inp, p, "}"))

\* After "..." and the comma that may follow it
params_after_ellipsis(inp, p, params) ==
    IF current(inp, p) = "}" THEN params_finish(inp, p, params)
    ELSE parse_function_params_loop(inp, p, params)

params_item(inp, r, params) ==
    IF ~r.ok THEN r
    ELSE parse_function_params_loop(inp,
             skip_separator(inp, skip_whitespace(inp, r.p), ","), Append(params, r.v))

parse_function_params_loop(inp, p, params) ==
    IF current(inp, p) # "}" /\ current(inp, p) # None
    THEN IF peek_string(inp, p, <<".", ".", ".">>)
         THEN params_after_ellipsis(inp,
                  skip_separator(inp, skip_whitespace(inp, advance_n(inp, p, 3)), ","), params)
         ELSE params_item(inp, parse_identifier(inp, p), params)
    ELSE params_finish(inp, p, params)

parse_function_params(inp, p) ==
    parse_function_params_loop(inp, skip_whitespace(inp, advance(inp, p)), <<>>)

RECURSIVE parse_let_loop(_, _, _)

let_after_value(inp, key, value, bindings) ==
    IF ~value.ok THEN value
    ELSE parse_let_loop(inp, skip_separator(inp, skip_whitespace(inp, value.p), ";"),
                        HashMapInsert(bindings, key, value.v))

let_expect_eq(inp, key, p1, bindings) ==
    IF current(inp, p1) # "="
    THEN Err(inp, p1, "Expected '=' in let binding", <<>>)
    ELSE let_after_value(inp, key,
             parse_value(inp, skip_whitespace(inp, advance(inp, p1))), bindings)

let_after_key(inp, key, bindings) ==
    IF ~key.ok THEN key
    ELSE let_expect_eq(inp, key.v, skip_whitespace(inp, key.p), bindings)

let_body(body, bindings) ==
    IF ~body.ok THEN body ELSE Ok(NixLet(bindings, body.v), body.p)

parse_let_loop(inp, p, bindings) ==
    IF ~peek_string(inp, p, <<"i", "n">>) /\ current(inp, p) # None
    THEN let_after_key(inp, parse_identifier(inp, p), bindings)
    ELSE let_body(parse_value(inp, skip_whitespace(inp, advance_n(inp, p, 2))), bindings)

parse_let(inp, p) ==
    parse_let_loop(inp, skip_whitespace(inp, advance_n(inp, p, 3)), HashMapNew)

\* The rollback with only the position restored
Restore_pos_only(cur, saved) == [cur EXCEPT !.pos = saved.pos]

\* self.pos = saved_pos; self.line = saved_line; self.col = saved_col
Restore(cur, saved) ==
    [cur EXCEPT !.pos = saved.pos, !.line = saved.line, !.col = saved.col]

\* The rollback, recorded in the history rb.
Rollback(cur, saved) ==
    [Restore(cur, saved) EXCEPT
        !.rb = Append(cur.rb, [saved |-> Triple(saved), start |-> Triple(Restore(cur, saved))])]

function_body(params, body) ==
    IF ~body.ok THEN body ELSE Ok(NixFunction(params, body.v), body.p)

\* The commit to a function without the test for ':'
function_if_colon_unchecked(inp, saved, params, p1) ==
    function_body(params, parse_value(inp, skip_whitespace(inp, advance(inp, p1))))

\* p1 is the cursor after the parameter list and the whitespace that follows.
function_if_colon(inp, saved, params, p1) ==
    IF current(inp, p1) = ":"
    THEN function_body(params, parse_value(inp, skip_whitespace(inp, advance(inp, p1))))
    ELSE parse_attrset(inp, Rollback(p1, saved))

function_or_attrset(inp, saved, params) ==
    IF params.ok
    THEN function_if_colon(inp, saved, params.v, skip_whitespace(inp, params.p))
    ELSE parse_attrset(inp, Rollback(params.p, saved))

parse_function_or_attrset(inp, saved) ==
    function_or_attrset(inp, saved, parse_function_params(inp, saved))

import_result(inp, path) ==
    IF ~path.ok THEN path
    ELSE IF path.v.tag \in {"String", "Path"} THEN Ok(NixImport(path.v.s), path.p)
    ELSE Err(inp, path.p, "Expected string or path after import", <<>>)

\* The identifier branch without the single-parameter function
simple_function_never(inp, id, p1) == Ok(NixVariable(id), p1)

\* p1 is the cursor after the attribute path and the whitespace that follows.
simple_function_if_colon(inp, id, p1) ==
    IF current(inp, p1) = ":"
    THEN function_body(<<id>>, parse_value(inp, skip_whitespace(inp, advance(inp, p1))))
    ELSE Ok(NixVariable(id), p1)

identifier_or_function(inp, id) ==
    IF ~id.ok THEN id
    ELSE simple_function_if_colon(inp, id.v, skip_whitespace(inp, id.p))

parse_keyword_or_identifier(inp, p) ==
    IF peek_string(inp, p, <<"n","u","l","l">>) THEN Ok(NixNull, advance_n(inp, p, 4))
    ELSE IF peek_string(inp, p, <<"t","r","u","e">>) THEN Ok(NixBool(TRUE), advance_n(inp, p, 4))
    ELSE IF peek_string(inp, p, <<"f","a","l","s","e">>) THEN Ok(NixBool(FALSE), advance_n(inp, p, 5))
    ELSE IF peek_string(inp, p, <<"l","e","t">>) THEN parse_let(inp, p)
    ELSE IF peek_string(inp, p, <<"i","m","p","o","r","t">>)
         THEN import_result(inp, parse_value(inp, skip_whitespace(inp, advance_n(inp, p, 6))))
    ELSE identifier_or_function(inp, parse_attribute_path(inp, p))

WrapString(r) == IF r.ok THEN Ok(NixString(r.v), r.p) ELSE r
WrapPath(r) == IF r.ok THEN Ok(NixPath(r.v), r.p) ELSE r

\* The dispatch of parse_value, at the cursor p after the leading whitespace
parse_value_at(inp, p) ==
    LET c == current(inp, p) IN
    IF c = "{" THEN parse_function_or_attrset(inp, p)
    ELSE IF c = "[" THEN parse_list(inp, p)
    ELSE IF c = "\"" THEN WrapString(parse_string(inp, p))
    ELSE IF c = "'" THEN WrapString(parse_string(inp, p))
    ELSE IF c # None /\ (is_numeric(c)
                         \/ (c = "-" /\ is_numeric(InputGet(inp, p.pos + 1))))
         THEN parse_number(inp, p)
    ELSE IF c = "."
         THEN IF InputGet(inp, p.pos + 1) \in {"/", "."}
              THEN WrapPath(parse_path(inp, p))
              ELSE Err(inp, p, "Unexpected '.' - expected path or attribute access", <<>>)
    ELSE IF c = "/" THEN WrapPath(parse_path(inp, p))
    ELSE IF c # None THEN parse_keyword_or_identifier(inp, p)
    ELSE Err(inp, p, "Unexpected end of input", <<>>)

parse_value(inp, p) == parse_value_at(inp, skip_whitespace(inp, p))

parse(inp, p) == parse_value(inp, p)

parse_nix_string(inp) == parse(inp, NewCursor)

-----------------------------------------------------------------------------
(* Serializer *)

RECURSIVE u64_to_string(_)
u64_to_string(n) ==
    IF n < 10 THEN <<DigitChars[n + 1]>>
    ELSE Append(u64_to_string(n \div 10), DigitChars[(n % 10) + 1])

\* Display of i64
i64_to_string(i) == IF i < 0 THEN <<"-">> \o u64_to_string(0 - i) ELSE u64_to_string(i)

RECURSIVE Pow10(_)
Pow10(k) == IF k = 0 THEN 1 ELSE 10 * Pow10(k - 1)

RECURSIVE ZeroPad(_, _)
ZeroPad(ds, width) == IF Len(ds) >= width THEN ds ELSE ZeroPad(<<"0">> \o ds, width)

\* Display of f64: the shortest decimal that reads back as the same f64, with
\* no exponent and no fraction when the value is integral (1.0 prints as 1).
f64_to_string(f) ==
    LET sign == IF f.neg THEN <<"-">> ELSE <<>>
        ip == u64_to_string(f.mant \div Pow10(f.scale))
    IN  IF f.scale = 0 THEN sign \o ip
        ELSE sign \o ip \o <<".">> \o ZeroPad(u64_to_string(f.mant % Pow10(f.scale)), f.scale)

RECURSIVE escape_quotes(_)
escape_quotes(s) ==
    IF s = <<>> THEN <<>>
    ELSE (IF Head(s) = "\"" THEN <<"\\", "\"">> ELSE <<Head(s)>>) \o escape_quotes(Tail(s))

\* The orders in which a HashMap's iterator may yield its keys.
IterOrders(m) ==
    LET n == Cardinality(DOMAIN m) IN
    {o \in [1..n -> DOMAIN m] : \A i, j \in 1..n : i # j => o[i] # o[j]}

RECURSIVE join_params(_)
join_params(params) ==
    IF params = <<>> THEN <<>>
    ELSE IF Len(params) = 1 THEN params[1]
    ELSE params[1] \o <<",", " ">> \o join_params(Tail(params))

\* write_with_indent(v, indent) is the set of texts the serializer may write
\* for v: one text per iteration order of the maps in v.
RECURSIVE write_with_indent(_, _)

RECURSIVE write_items(_, _)
write_items(items, indent) ==
    IF items = <<>> THEN {<<>>}
    ELSE {Spaces(2 * indent) \o <<" ", " ">> \o t \o <<NL>> \o rest :
             t \in write_with_indent(Head(items), indent + 1),
             rest \in write_items(Tail(items), indent)}

RECURSIVE write_entries(_, _, _)
write_entries(m, order, indent) ==
    IF order = <<>> THEN {<<>>}
    ELSE {Spaces(2 * indent) \o <<" ", " ">> \o Head(order) \o <<" ", "=", " ">> \o t
              \o <<";", NL>> \o rest :
             t \in write_with_indent(m[Head(order)], indent + 1),
             rest \in write_entries(m, Tail(order), indent)}

write_map(m, indent) == UNION {write_entries(m, o, indent) : o \in IterOrders(m)}

write_with_indent(v, indent) ==
    LET indent_str == Spaces(2 * indent) IN
    CASE v.tag = "Null" -> {<<"n","u","l","l">>}
      [] v.tag = "Bool" -> {IF v.b THEN <<"t","r","u","e">> ELSE <<"f","a","l","s","e">>}
      [] v.tag = "Int" -> {i64_to_string(v.i)}
      [] v.tag = "Float" -> {f64_to_string(v)}
      [] v.tag = "String" -> {<<"\"">> \o escape_quotes(v.s) \o <<"\"">>}
      [] v.tag = "Path" -> {v.s}
      [] v.tag = "Variable" -> {v.s}
      [] v.tag = "Import" -> {<<"i","m","p","o","r","t"," ">> \o v.s}
      [] v.tag = "List" ->
            {<<"[", NL>> \o body \o indent_str \o <<"]">> : body \in write_items(v.items, indent)}
      [] v.tag = "AttrSet" ->
            {<<"{", NL>> \o body \o indent_str \o <<"}">> : body \in write_map(v.attrs, indent)}
      [] v.tag = "Let" ->
            {<<"l","e","t", NL>> \o bs \o indent_str \o <<"i","n"," ">> \o body :
                bs \in write_map(v.bindings, indent),
                body \in write_with_indent(v.body, indent)}
      [] v.tag = "Function" ->
            {(IF Len(v.params) = 1 THEN v.params[1] \o <<":", " ">>
              ELSE <<"{", " ">> \o join_params(v.params)
                      \o <<",", " ", ".", ".", ".", " ", "}", ":", " ">>) \o body :
                body \in write_with_indent(v.body, indent)}
      [] OTHER -> {<<"/","*"," ","n","o","n"," ","i","m","p","l","é","m","e","n","t","é"," ","*","/">>}

\* impl Display for NixValue
to_string(v) == write_with_indent(v, 0)

-----------------------------------------------------------------------------
(* Driver: parse a source text, write the value back, parse what was written
   (examples/test_file.rs parses a file and writes the value to another). *)

RECURSIVE Concat(_)
Concat(ss) == IF ss = <<>> THEN <<>> ELSE Head(ss) \o Concat(Tail(ss))

SeqsUpTo(S, n) == UNION {[1..k -> S] : k \in 0..n}

NoResult == [ok |-> FALSE, v |-> [message |-> "not run"], p |-> NewCursor]

InitWith(shapes) ==
    /\ shape \in shapes
    /\ input = Concat(shape.parts)
    /\ pc = "start"
    /\ result = NoResult
    /\ text = <<>>
    /\ result2 = NoResult

ParseInput ==
    /\ pc = "start"
    /\ result' = parse_nix_string(input)
    /\ pc' = "parsed"
    /\ UNCHANGED <<input, shape, text, result2>>

WriteValue ==
    /\ pc = "parsed"
    /\ result.ok
    /\ \E t \in to_string(result.v) : text' = t
    /\ pc' = "printed"
    /\ UNCHANGED <<input, shape, result, result2>>

ParseWritten ==
    /\ pc = "printed"
    /\ result2' = parse_nix_string(text)
    /\ pc' = "reparsed"
    /\ UNCHANGED <<input, shape, result, text>>

Next == ParseInput \/ WriteValue \/ ParseWritten

\* Every text of at most n characters of the alphabet S, one part per character.
CharShapes(S, n) ==
    {[kind |-> "chars", parts |-> [i \in DOMAIN cs |-> <<cs[i]>>]] : cs \in SeqsUpTo(S, n)}

-----------------------------------------------------------------------------
(* What the claims are measured against: positions counted on the text *)

\* The number of leading whitespace characters of inp
RECURSIVE LeadingWs(_)
LeadingWs(inp) ==
    IF inp # <<>> /\ Head(inp) \in {" ", NL, "\t", "\r"} THEN 1 + LeadingWs(Tail(inp)) ELSE 0

\* Line and column (1-based) of the cursor after k characters of inp
LineAt(inp, k) == 1 + Cardinality({i \in 1..Min(k, Len(inp)) : inp[i] = NL})
ColAt(inp, k) ==
    LET m == Min(k, Len(inp))
        nls == {i \in 1..m : inp[i] = NL}
        last == IF nls = {} THEN 0 ELSE CHOOSE i \in nls : \A j \in nls : j <= i
    IN  m - last + 1

-----------------------------------------------------------------------------
(* Specification of the braces alphabet: every short text over Sigma *)

MaxLen == 4

Sigma == {"{", "}", "a", ",", ":", "=", "1", ";", NL, "."}

Init == InitWith(CharShapes(Sigma, MaxLen))

Spec == Init /\ [][Next]_vars

-----------------------------------------------------------------------------
(* Numerals: every short text over SigmaNum *)

MaxLenNum == 5

SigmaNum == {"0", "1", "2", ".", "-", " ", "a"}

InitNum == InitWith(CharShapes(SigmaNum, MaxLenNum))

SpecNum == InitNum /\ [][Next]_vars

NumStart == LeadingWs(input)

\* The value starts with a digit, or with '-' immediately followed by a digit.
StartsNumeral ==
    /\ NumStart < Len(input)
    /\ \/ input[NumStart + 1] \in Digits
       \/ /\ input[NumStart + 1] = "-"
          /\ NumStart + 1 < Len(input)
          /\ input[NumStart + 2] \in Digits

\* The end (a count of characters) of the maximal run of digits, '.' and '-'
NumEnd ==
    CHOOSE e \in NumStart..Len(input) :
        /\ \A i \in (NumStart + 1)..e : input[i] \in Digits \cup {".", "-"}
        /\ e < Len(input) => input[e + 1] \notin Digits \cup {".", "-"}

NumRun == SubSeq(input, NumStart + 1, NumEnd)

\* C9: a value that starts with a digit, or with '-' and a digit, is scanned
\* to the end of the maximal run of digits, '.' and '-'; a run without '.'
\* that is a valid integer yields Int of it, a run with a '.' that is a valid
\* float yields Float of it, and any other run yields an error and no value;
\* "1" yields Int(1), "1.0" yields Float(1.0), "1-2" and "1.2.3" fail.
C9_NumericClassification ==
    /\ (pc = "parsed" /\ StartsNumeral) =>
          /\ result.p.pos = NumEnd
          /\ IF "." \notin {NumRun[i] : i \in DOMAIN NumRun}
             THEN IF parse_i64(NumRun).ok
                  THEN result.ok /\ result.v = NixInt(parse_i64(NumRun).v)
                  ELSE ~result.ok /\ result.v.message = "Invalid integer"
             ELSE IF parse_f64(NumRun).ok
                  THEN result.ok /\ result.v.tag = "Float"
                       /\ result.v.neg = parse_f64(NumRun).neg
                       /\ result.v.mant = parse_f64(NumRun).mant
                       /\ result.v.scale = parse_f64(NumRun).scale
                  ELSE ~result.ok /\ result.v.message = "Invalid float"
    /\ (pc = "parsed" /\ input = <<"1">>) => result.ok /\ result.v = [tag |-> "Int", i |-> 1]
    /\ (pc = "parsed" /\ input = <<"1", ".", "0">>) =>
          result.ok /\ result.v = [tag |-> "Float", neg |-> FALSE, mant |-> 1, scale |-> 0]
    /\ (pc = "parsed" /\ input = <<"-", "2", ".", "1">>) =>
          result.ok /\ result.v = [tag |-> "Float", neg |-> TRUE, mant |-> 21, scale |-> 1]
    /\ (pc = "parsed" /\ input \in {<<"1", "-", "2">>, <<"1", ".", "2", ".", "1">>}) => ~result.ok

C9_Witness ==
    /\ pc = "parsed"
    /\ input = <<"1", ".", "2", ".", "1">>
    /\ ~result.ok

\* C1: the text written for a parsed value parses back to an equal value.
C1_RoundTrip == pc = "reparsed" => result2.ok /\ result2.v = result.v

-----------------------------------------------------------------------------
(* C10 *)

\* The cursor triple obtained by counting k characters from the start of inp
CountedTriple(inp, k) == [pos |-> k, line |-> LineAt(inp, k), col |-> ColAt(inp, k)]

\* C10: every time parse_value abandons the function-parameter attempt at a
\* '{', parse_attrset starts with pos, line and col equal to the snapshot
\* taken at that '{', which is the position counted from the start of the
\* input; and the line and column of an error reported after such a rollback
\* are those counted from the start of the input to the failure position.
C10_RollbackRestoresCursor ==
    pc = "parsed" =>
        /\ \A i \in DOMAIN result.p.rb :
              /\ result.p.rb[i].start = result.p.rb[i].saved
              /\ InputGet(input, result.p.rb[i].saved.pos) = "{"
              /\ result.p.rb[i].start = CountedTriple(input, result.p.rb[i].saved.pos)
        /\ (~result.ok /\ result.p.rb # <<>>) =>
              /\ result.v.line = LineAt(input, result.p.pos)
              /\ result.v.col = ColAt(input, result.p.pos)

\* An error on the second line, reported after a rollback over a newline
C10_Witness ==
    /\ pc = "parsed"
    /\ input = <<"{", NL, "a">>
    /\ ~result.ok
    /\ Len(result.p.rb) = 1
    /\ result.v.line = 2 /\ result.v.col = 2

-----------------------------------------------------------------------------
(* C8: string literals, every short text over SigmaStr *)

MaxLenStr == 5

SigmaStr == {"\"", "'", "\\", "a", NL, " "}

InitStr == InitWith(CharShapes(SigmaStr, MaxLenStr))

SpecStr == InitStr /\ [][Next]_vars

StrStart == LeadingWs(input)

\* The value starts with a quote: a string literal is opened (at StrStart + 1).
OpensString == StrStart < Len(input) /\ input[StrStart + 1] \in {"\"", "'"}

OpensMultiLine ==
    /\ StrStart + 1 < Len(input)
    /\ input[StrStart + 1] = "'" /\ input[StrStart + 2] = "'"

\* The number of backslashes that immediately precede the character i of the
\* literal's content
BackslashRun(i) ==
    CHOOSE n \in 0..(i - StrStart - 2) :
        /\ \A j \in (i - n)..(i - 1) : input[j] = "\\"
        /\ n = i - StrStart - 2 \/ input[i - n - 1] # "\\"

\* The literal is never closed: no '' after the opening '' of a multi-line
\* string, no unescaped closing quote after the opening quote otherwise.
NeverClosed ==
    IF OpensMultiLine
    THEN ~ \E i \in (StrStart + 3)..(Len(input) - 1) : input[i] = "'" /\ input[i + 1] = "'"
    ELSE ~ \E i \in (StrStart + 2)..Len(input) :
              input[i] = input[StrStart + 1] /\ BackslashRun(i) % 2 = 0

-----------------------------------------------------------------------------
(* C2: texts  lead { item ... item [}] tail *)

MaxItems == 3

BraceLeads == {<<>>, <<NL>>}

BraceItems ==
    {<<" ", "a", ",">>, <<" ", "b", ",">>, <<" ", ".", ".", ".", " ">>,
     <<"a">>, <<"b">>, <<",">>, <<" ">>, <<".", ".", ".">>,
     <<" ", "a", " ", "=", " ", "1", ";", " ">>}

BraceCloses == {<<"}">>, <<>>}

BraceTails ==
    {<<>>, <<":", " ", "a">>, <<" ", ":">>, <<":", "1", "-">>, <<"=">>}

BraceShapes ==
    {[kind |-> "brace",
      parts |-> <<lead, <<"{">>, Concat(items), close, tail>>] :
        lead \in BraceLeads, items \in SeqsUpTo(BraceItems, MaxItems),
        close \in BraceCloses, tail \in BraceTails}

InitBrace == InitWith(BraceShapes)

SpecBrace == InitBrace /\ [][Next]_vars

\* The cursor obtained by counting k characters from the start of inp
CursorAt(inp, k) ==
    [pos |-> k, line |-> LineAt(inp, k), col |-> ColAt(inp, k), rb |-> <<>>,
     eof |-> 0, bad |-> FALSE]

\* The maximal runs of identifier characters of s, in order
RECURSIVE IdentRuns(_, _)
IdentRuns(s, run) ==
    IF s = <<>> THEN (IF run = <<>> THEN <<>> ELSE <<run>>)
    ELSE IF IsIdentChar(Head(s)) THEN IdentRuns(Tail(s), Append(run, Head(s)))
    ELSE (IF run = <<>> THEN <<>> ELSE <<run>>) \o IdentRuns(Tail(s), <<>>)

BracePos == Len(shape.parts[1])

\* The parameter-list scan started at the '{'
BraceScan == parse_function_params(input, CursorAt(input, BracePos))

\* The scan succeeds and the next non-whitespace character is ':'
ScanThenColon ==
    BraceScan.ok /\ current(input, skip_whitespace(input, BraceScan.p)) = ":"

\* The text after the first ':' of the input
AfterColon ==
    SubSeq(input, (CHOOSE i \in 1..Len(input) :
                      input[i] = ":" /\ \A j \in 1..(i - 1) : input[j] # ":") + 1,
           Len(input))

\* C2: for an input whose first non-whitespace character is '{': when the
\* parameter-list scan succeeds and the next non-whitespace character is
\* ':', the result is a Function whose params are the identifiers between
\* the braces in source order, without "...", and whose body is the parse
\* of what follows the ':' (an error of the body is the result); in every
\* other case the result, value or error, and the cursor are the ones
\* parse_attrset gives when started at that '{'.
C2_FunctionOrAttrSet ==
    (pc = "parsed" /\ shape.kind = "brace") =>
        IF ScanThenColon
        THEN IF parse_nix_string(AfterColon).ok
             THEN /\ result.ok
                  /\ result.v = NixFunction(IdentRuns(shape.parts[3], <<>>),
                                            parse_nix_string(AfterColon).v)
             ELSE /\ ~result.ok
                  /\ result.v.message = parse_nix_string(AfterColon).v.message
        ELSE /\ result.ok = parse_attrset(input, CursorAt(input, BracePos)).ok
             /\ result.v = parse_attrset(input, CursorAt(input, BracePos)).v
             /\ Triple(result.p) = Triple(parse_attrset(input, CursorAt(input, BracePos)).p)

\* "{ a, b, ... }: a" is a Function of a and b
C2_Witness ==
    /\ pc = "parsed"
    /\ input = <<"{", " ", "a", ",", " ", "b", ",", " ", ".", ".", ".", " ", "}", ":", " ", "a">>
    /\ result.ok
    /\ result.v = [tag |-> "Function", params |-> << <<"a">>, <<"b">> >>,
                   body |-> [tag |-> "Variable", s |-> <<"a">>]]

-----------------------------------------------------------------------------
(* C6: texts  lead path gap tail *)

IdentLeads == {<<>>, <<NL>>}

\* Attribute paths as written (src) and the path text they denote (text)
IdentPaths ==
    {[src |-> <<"x">>, text |-> <<"x">>],
     [src |-> <<"a", ".", "b">>, text |-> <<"a", ".", "b">>],
     [src |-> <<"a", " ", ".", " ", "b">>, text |-> <<"a", ".", "b">>],
     [src |-> <<"a", ".", "\"", "k", "\"">>, text |-> <<"a", ".", "\"", "k", "\"">>],
     [src |-> <<"x", "-", "y", "'">>, text |-> <<"x", "-", "y", "'">>],
     [src |-> <<"n", "u", "l">>, text |-> <<"n", "u", "l">>]}

IdentGaps == {<<>>, <<" ">>}

IdentTails ==
    {<<>>, <<":", " ", "x", " ", "+", " ", "1">>, <<":">>, <<":", "1">>,
     <<" ", "+", " ", "1">>, <<".", "/", "p">>, <<"=", " ", "1">>,
     <<":", " ", "y", ":", " ", "2">>, <<":", " ", "1", "-">>}

IdentShapes ==
    {[kind |-> "ident", path |-> ap.text, parts |-> <<lead, ap.src, gap, tail>>] :
        lead \in IdentLeads, ap \in IdentPaths, gap \in IdentGaps, tail \in IdentTails}

InitIdent == InitWith(IdentShapes)

SpecIdent == InitIdent /\ [][Next]_vars

\* The next non-whitespace character after the path is ':'
ColonFollows == shape.parts[4] # <<>> /\ Head(shape.parts[4]) = ":"

\* The text after that ':'
IdentBody == Tail(shape.parts[4])

\* C6: when the input starts with an attribute path that is no keyword
\* prefix, the result is Function with the one parameter [path] and the
\* parse of what follows the ':' as body if the next non-whitespace character
\* after the path is ':' (an error of the body is the result), and
\* Variable(path) otherwise; the parse succeeds with text left unconsumed
\* after the first complete value.
C6_IdentifierDispatch ==
    (pc = "parsed" /\ shape.kind = "ident") =>
        IF ColonFollows
        THEN IF parse_nix_string(IdentBody).ok
             THEN /\ result.ok
                  /\ result.v = NixFunction(<<shape.path>>, parse_nix_string(IdentBody).v)
                  /\ result.p.pos = Len(input) - Len(IdentBody)
                                      + parse_nix_string(IdentBody).p.pos
             ELSE /\ ~result.ok
                  /\ result.v.message = parse_nix_string(IdentBody).v.message
        ELSE /\ result.ok
             /\ result.v = NixVariable(shape.path)
             /\ shape.parts[4] # <<>> => result.p.pos < Len(input)

\* "x: x + 1" is a Function of x whose body is x; " + 1" is left unconsumed
C6_Witness ==
    /\ pc = "parsed"
    /\ input = <<"x", ":", " ", "x", " ", "+", " ", "1">>
    /\ result.ok
    /\ result.v = [tag |-> "Function", params |-> << <<"x">> >>,
                   body |-> [tag |-> "Variable", s |-> <<"x">>]]
    /\ result.p.pos = 5

-----------------------------------------------------------------------------
(* C7: texts of tokens separated by one space, with a filler inserted at one
   of the spaces, directly before it or directly after it *)

MaxTokens == 3

PathToken == <<".", "/", "a">>
DotToken == <<".">>
BlockComment == <<"/", "*", " ", "c", " ", "*", "/">>
LineComment == <<"#", " ", "c", NL>>

Tokens ==
    {<<"[">>, <<"]">>, PathToken, <<"x">>, DotToken, <<":">>, <<"{">>,
     <<"a", " ", "=", " ", "1", ";", " ", "}">>, <<"1">>}

Fillers == {<<" ">>, LineComment, BlockComment}

\* The tokens ts joined by one space, with the text ins put before ("before")
\* or after ("after") the space that follows token k
RECURSIVE Joined(_, _, _, _)
Joined(ts, k, side, ins) ==
    IF Len(ts) <= 1 THEN ts
    ELSE <<Head(ts),
           IF k = 1 THEN (IF side = "before" THEN ins \o <<" ">> ELSE <<" ">> \o ins)
           ELSE <<" ">>>>
         \o Joined(Tail(ts), k - 1, side, ins)

TriviaShapes ==
    {[kind |-> "trivia", tokens |-> ts, at |-> k, side |-> side, filler |-> f,
      parts |-> Joined(ts, k, side, f)] :
        ts \in {t \in SeqsUpTo(Tokens, MaxTokens) : Len(t) >= 2},
        k \in 1..(MaxTokens - 1), side \in {"before", "after"}, f \in Fillers}

InitTrivia ==
    /\ InitWith(TriviaShapes)
    /\ shape.at < Len(shape.tokens)

SpecTrivia == InitTrivia /\ [][Next]_vars

\* The text without the insertion
TriviaBase == Concat(Joined(shape.tokens, 0, "after", <<>>))

\* A block comment put directly after a path literal or after a '.': its '/'
\* is read as part of the path.
SlashJoinsPath ==
    /\ shape.filler = BlockComment
    /\ shape.side = "before"
    /\ shape.tokens[shape.at] \in {PathToken, DotToken}

\* C7 as claimed: if the text parses, the text with a line comment, a block
\* comment or extra whitespace inserted at a space between two tokens parses
\* to an equal value.
C7_InsertAnywhere ==
    (pc = "parsed" /\ shape.kind = "trivia" /\ parse_nix_string(TriviaBase).ok) =>
        /\ result.ok
        /\ result.v = parse_nix_string(TriviaBase).v

\* C7 as amended: the same, unless the insertion is a block comment put
\* directly after a path literal or after the '.' of an attribute path.
C7_Transparency ==
    (pc = "parsed" /\ shape.kind = "trivia" /\ parse_nix_string(TriviaBase).ok
        /\ ~SlashJoinsPath) =>
        /\ result.ok
        /\ result.v = parse_nix_string(TriviaBase).v

\* "{ # c\na = 1; }" parses to the AttrSet of "{ a = 1; }"
C7_Witness ==
    /\ pc = "parsed"
    /\ input = <<"{", " ", "#", " ", "c", NL, "a", " ", "=", " ", "1", ";", " ", "}">>
    /\ TriviaBase = <<"{", " ", "a", " ", "=", " ", "1", ";", " ", "}">>
    /\ result.ok
    /\ result.v = [tag |-> "AttrSet", attrs |-> HashMapInsert(<<>>, <<"a">>, [tag |-> "Int", i |-> 1])]

-----------------------------------------------------------------------------
(* C3: texts  { k1 = v1; ... kn = vn; } *)

MaxEntries == 3

\* Source texts of simple values and the values they denote
SimpleValues ==
    {[src |-> <<"1">>, value |-> NixInt(1)],
     [src |-> <<"2">>, value |-> NixInt(2)],
     [src |-> <<"x">>, value |-> NixVariable(<<"x">>)]}

AttrKeys == {<<"a">>, <<"b">>, <<"a", ".", "b">>, <<"i", "n", "h", "e", "r", "i", "t", "s">>}

AttrEntries == {[key |-> k, val |-> v] : k \in AttrKeys, v \in SimpleValues}

\* The text  key = value;  of each entry, followed by a space
RECURSIVE EntriesText(_)
EntriesText(es) ==
    IF es = <<>> THEN <<>>
    ELSE Head(es).key \o <<" ", "=", " ">> \o Head(es).val.src \o <<";", " ">>
             \o EntriesText(Tail(es))

AttrShapes ==
    {[kind |-> "attrs", entries |-> es,
      parts |-> <<<<"{", " ">>, EntriesText(es), <<"}">>>>] :
        es \in SeqsUpTo(AttrEntries, MaxEntries)}

InitAttr == InitWith(AttrShapes)

SpecAttr == InitAttr /\ [][Next]_vars

\* C3: parsing { k1 = v1; ... kn = vn; } returns an AttrSet with exactly one
\* entry per distinct key text, each key mapped to the parsed value of its
\* last occurrence.
C3_LastWriteWins ==
    (pc = "parsed" /\ shape.kind = "attrs") =>
        /\ result.ok
        /\ result.v.tag = "AttrSet"
        /\ DOMAIN result.v.attrs = {shape.entries[i].key : i \in DOMAIN shape.entries}
        /\ \A i \in DOMAIN shape.entries :
              (\A j \in DOMAIN shape.entries : j > i => shape.entries[j].key # shape.entries[i].key)
                  => result.v.attrs[shape.entries[i].key] = shape.entries[i].val.value

-----------------------------------------------------------------------------
(* C4: texts  let n1 = v1; ... nk = vk; in body  with distinct names *)

MaxBindings == 2

LetNames == {<<"x">>, <<"y">>, <<"i", "n", "x">>}

LetEntries == {[key |-> k, val |-> v] : k \in LetNames, v \in SimpleValues}

LetShapes ==
    {[kind |-> "let", entries |-> es, body |-> b,
      parts |-> <<<<"l", "e", "t", " ">>, EntriesText(es), <<"i", "n", " ">>, b.src>>] :
        es \in {e \in SeqsUpTo(LetEntries, MaxBindings) :
                   \A i, j \in DOMAIN e : i # j => e[i].key # e[j].key},
        b \in SimpleValues}

InitLet == InitWith(LetShapes)

SpecLet == InitLet /\ [][Next]_vars

\* C4: parsing  let n1 = v1; ... nk = vk; in body  with k distinct names
\* returns a Let whose bindings have exactly k entries, each ni mapped to the
\* parsed value of vi, and whose body is the parsed value of body.
C4_LetBindings ==
    (pc = "parsed" /\ shape.kind = "let") =>
        /\ result.ok
        /\ result.v.tag = "Let"
        /\ DOMAIN result.v.bindings = {shape.entries[i].key : i \in DOMAIN shape.entries}
        /\ \A i \in DOMAIN shape.entries :
              result.v.bindings[shape.entries[i].key] = shape.entries[i].val.value
        /\ result.v.body = shape.body.value

-----------------------------------------------------------------------------
(* C5: texts  [ e1 e2 ... en ]  and the same without the closing bracket *)

MaxElements == 3

ListElements ==
    SimpleValues \cup
    {[src |-> <<".", "/", "p">>, value |-> NixPath(<<".", "/", "p">>)],
     [src |-> <<".", ".", "/", "p">>, value |-> NixPath(<<".", ".", "/", "p">>)],
     [src |-> <<"\"", "s", "\"">>, value |-> NixString(<<"s">>)]}

\* The text of each element, followed by a space
RECURSIVE ElementsText(_)
ElementsText(es) ==
    IF es = <<>> THEN <<>> ELSE Head(es).src \o <<" ">> \o ElementsText(Tail(es))

ListShapes ==
    {[kind |-> "list", elements |-> es, closed |-> closed,
      parts |-> <<<<"[", " ">>, ElementsText(es), IF closed THEN <<"]">> ELSE <<>>>>] :
        es \in SeqsUpTo(ListElements, MaxElements), closed \in BOOLEAN}

InitList == InitWith(ListShapes)

SpecList == InitList /\ [][Next]_vars

\* C5: parsing [ e1 e2 ... en ], elements separated only by whitespace,
\* returns a List of exactly n items, item i the parsed value of ei; the same
\* List is returned without an error when the closing ']' is missing.
C5_ListItems ==
    (pc = "parsed" /\ shape.kind = "list") =>
        /\ result.ok
        /\ result.v = NixList([i \in DOMAIN shape.elements |-> shape.elements[i].value])

-----------------------------------------------------------------------------
(* C11: texts  pad ... pad core tail ... tail, long enough for the window of
   get_context to be cut on either side *)

MaxPad == 32

CtxPads == {" ", NL}

\* Texts that end in an error, at their end or before the trailing text, and
\* one that is a value
CtxCores ==
    {<<"\"", "a">>, <<"1", "-", "2">>, <<"{", " ", "a", NL>>, <<"[", " ", ".", "a">>,
     <<"a">>}

CtxShapes ==
    {[kind |-> "ctx",
      parts |-> <<[i \in 1..n |-> pad], core, [i \in 1..m |-> IF i = 1 THEN " " ELSE "b"]>>] :
        pad \in CtxPads, n \in 0..MaxPad, core \in CtxCores,
        m \in {0, 1, ContextRange - 1, ContextRange, ContextRange + 1}}

InitCtx == InitWith(CtxShapes)

SpecCtx == InitCtx /\ [][Next]_vars

\* s with every newline written as backslash, n
Rendered(s) == Concat([i \in DOMAIN s |-> IF s[i] = NL THEN <<"\\", "n">> ELSE <<s[i]>>])

WindowStart(p) == IF p > ContextRange THEN p - ContextRange ELSE 0
WindowEnd(inp, p) == IF p + ContextRange < Len(inp) THEN p + ContextRange ELSE Len(inp)

\* The first line of the snippet for an error at position p of inp
WindowLine(inp, p) == Rendered(SubSeq(inp, WindowStart(p) + 1, WindowEnd(inp, p)))

\* The column (0-based) of the character at position p in that first line
CaretColumn(inp, p) == Len(Rendered(SubSeq(inp, WindowStart(p) + 1, Min(p, Len(inp)))))

\* C11: the context of a syntax error raised at position p is the window of
\* the input from max(0, p-30) to min(len, p+30) with every newline written
\* as backslash, n; then a newline; then the caret, in the column of the
\* character at p as it appears in that first line.
C11_ContextSnippet ==
    (pc = "parsed" /\ ~result.ok) =>
        result.v.context =
            WindowLine(input, result.p.pos) \o <<NL>>
                \o [i \in 1..CaretColumn(input, result.p.pos) |-> " "] \o <<"^">>

-----------------------------------------------------------------------------
(* C12: texts of at most MaxParts parts, among them the keywords and the
   openers whose scanners run to the end of the input *)

MaxParts == 4

EofParts ==
    {<<"l", "e", "t", " ">>, <<"i", "n">>, <<" ">>, <<"x">>, <<"=", " ", "1", ";">>,
     <<"{">>, <<"[">>, <<"/", "*">>, <<"\"">>}

EofShapes == {[kind |-> "eof", parts |-> ps] : ps \in SeqsUpTo(EofParts, MaxParts)}

InitEof == InitWith(EofShapes)

SpecEof == InitEof /\ [][Next]_vars

ContainsLet(inp) ==
    \E i \in 1..(Len(inp) - 2) : SubSeq(inp, i, i + 2) = <<"l", "e", "t">>

\* C12: advance is called with no character under the cursor only for the
\* "in" of parse_let, so the position exceeds the length of the input by at
\* most 2, and then the parse ends in the end-of-input error; no error is
\* built from a slice with start > end, so the parse ends with a value or
\* with a ParseError that has its context.
C12_NoBoundsViolation ==
    pc = "parsed" =>
        /\ ~result.p.bad
        /\ result.p.pos <= Len(input) + 2
        /\ result.p.eof = (IF result.p.pos > Len(input) THEN result.p.pos - Len(input) ELSE 0)
        /\ result.p.pos > Len(input) =>
              /\ ~result.ok
              /\ result.v.message = "Unexpected end of input"
              /\ ContainsLet(input)
        /\ ~result.ok => result.v.context # SlicePanic

\* "let " at the end of the input: the position is 2 past the end
C12_Witness ==
    /\ pc = "parsed"
    /\ input = <<"l", "e", "t", " ">>
    /\ ~result.ok
    /\ result.p.pos = Len(input) + 2
    /\ result.p.eof = 2

-----------------------------------------------------------------------------
(* C13: every short text over SigmaAt, and every position in it at which a
   call or a loop iteration can start *)

MaxLenAt == 3

SigmaAt == {"{", "[", "a", ".", "/", "*", "#", "\"", " ", NL, "=", "1"}

AtShapes ==
    {[kind |-> "at", at |-> k, parts |-> [i \in DOMAIN cs |-> <<cs[i]>>]] :
        cs \in SeqsUpTo(SigmaAt, MaxLenAt), k \in 0..MaxLenAt}

InitAt ==
    /\ InitWith(AtShapes)
    /\ shape.at <= Len(input)

SpecAt == InitAt /\ [][Next]_vars

\* The cursor at the position the shape names
AtCursor == CursorAt(input, shape.at)

\* C13: started at any position of any input, a call of parse_value that
\* returns a value has advanced the cursor (an iteration of parse_list); so
\* have parse_identifier (an iteration of the inherit loop, of
\* parse_function_params and of parse_let) and the key scanners parse_string
\* and parse_attribute_path (an iteration of parse_attrset and of
\* parse_attribute_path); an iteration of skip_whitespace that does not end
\* the loop advances, and skip_whitespace never moves the cursor back; and
\* the parse of the whole input ends with a value or an error at a position
\* not before its start.
C13_Progress ==
    (pc = "parsed" /\ shape.kind = "at") =>
        /\ parse_value(input, AtCursor).ok => parse_value(input, AtCursor).p.pos > shape.at
        /\ parse_identifier(input, AtCursor).ok
              => parse_identifier(input, AtCursor).p.pos > shape.at
        /\ (current(input, AtCursor) = "\"" /\ parse_string(input, AtCursor).ok)
              => parse_string(input, AtCursor).p.pos > shape.at
        /\ parse_attribute_path(input, AtCursor).ok
              => parse_attribute_path(input, AtCursor).p.pos > shape.at
        /\ current(input, AtCursor) = "#" => skip_line_comment(input, AtCursor).pos > shape.at
        /\ peek_string(input, AtCursor, <<"/", "*">>)
              => skip_block_comment(input, advance_n(input, AtCursor, 2)).pos >= shape.at + 2
        /\ (current(input, AtCursor) # None /\ is_whitespace(current(input, AtCursor)))
              => advance(input, AtCursor).pos = shape.at + 1
        /\ skip_whitespace(input, AtCursor).pos >= shape.at
        /\ skip_whitespace(input, AtCursor).pos > shape.at
              <=> \/ current(input, AtCursor) \in {" ", NL, "#"}
                  \/ peek_string(input, AtCursor, <<"/", "*">>)
        /\ result.ok => result.p.pos > 0

\* In "[a", at position 1, parse_value returns the Variable a and has advanced
C13_Witness ==
    /\ pc = "parsed"
    /\ input = <<"[", "a">>
    /\ shape.at = 1
    /\ parse_value(input, AtCursor).ok
    /\ parse_value(input, AtCursor).p.pos = 2
    /\ result.ok

=============================================================================
